---- MODULE Spec2Model ----
(***************************************************************************)
(* A model of internal/feed/reddit.go: the OAuth credential of a Reddit    *)
(* feed (RedditOauth), the password-grant token exchange (TryAuthenticate) *)
(* and the fetch-and-normalize pipeline (FetchSubredditPosts).             *)
(*                                                                         *)
(* Strings that the code takes apart or substitutes into are sequences of  *)
(* tokens (a token is a run of characters the code never splits); the      *)
(* empty string is <<>>.  Strings the code only compares with "" or copies *)
(* are TLA+ strings.                                                       *)
(*                                                                         *)
(* Time is an integer number of ticks since the zero time.Time (January 1, *)
(* year 1).  A time.Duration is a signed integer of DurBits bits counting  *)
(* ticks, and the product at reddit.go:99 wraps around at that width the   *)
(* way Go's int64 product does.                                            *)
(***************************************************************************)
EXTENDS Integers, Sequences, FiniteSets, TLC

(***************************************************************************)
(* Bounds of the model.                                                    *)
(***************************************************************************)
\* width, in bits, of int and of time.Duration (64 in the build)
DurBits == 3
\* how far the clock advances past its first reading
MaxTick == 2
\* the longest listing a response carries
MaxLen == 2

\* time.Duration ticks in one time.Second (a power-of-two multiple, like 10^9)
Second == 2

Procs == {1, 2}
Creds == {1, 2}
\* oauth == nil
Nil == 0

VARIABLES
    now,        \* the clock time.Now() reads
    cred,       \* the RedditOauth objects, by reference
    pc,         \* where each caller is in its call
    call,       \* the function each caller is in and its arguments
    useOauth,   \* FetchSubredditPosts' local useOauth
    response,   \* TryAuthenticate's locals response, err
    request,    \* the listing request FetchSubredditPosts built
    listing,    \* FetchSubredditPosts' locals responseJson (its Data.Children), err
    ret,        \* the values the call returns
    log,        \* the requests issued and responses received in this call
    before      \* the call's credential as it was when the call started

vars == <<now, cred, pc, call, useOauth, response, request, listing, ret, log, before>>

(***************************************************************************)
(* Integers and time.                                                      *)
(***************************************************************************)
MinInt == -(2^(DurBits - 1))
MaxInt == 2^(DurBits - 1) - 1
IntValues == MinInt .. MaxInt

\* two's-complement wrap-around of an integer product
Wrap(x) ==
    LET m == 2^DurBits
        r == x % m
    IN  IF r > MaxInt THEN r - m ELSE r

\* the zero value of time.Time
ZeroTime == 0

\* The earliest reading of the clock.  A clock a system accepts reads 1970 or
\* later, which is more than the largest time.Duration after the zero time.
Epoch == 2^DurBits

IsZero(t) == t = ZeroTime
After(t, u) == t > u
TimeAdd(t, d) == t + d

(***************************************************************************)
(* Strings as token sequences.                                             *)
(***************************************************************************)
RECURSIVE ReplaceAll(_, _, _)
\* strings.ReplaceAll(s, old, new), old a single token
ReplaceAll(s, old, new) ==
    IF s = <<>> THEN <<>>
    ELSE (IF Head(s) = old THEN new ELSE <<Head(s)>>) \o ReplaceAll(Tail(s), old, new)

RECURSIVE TrimLeft(_, _)
\* strings.TrimLeft(s, cutset), cutset a single token
TrimLeft(s, cut) ==
    IF s # <<>> /\ Head(s) = cut THEN TrimLeft(Tail(s), cut) ELSE s

Contains(s, tok) == \E i \in DOMAIN s : s[i] = tok

\* a control character, which net/url refuses in a URL
CtlChar == "<DEL>"

(***************************************************************************)
(* Credential State.                                                       *)
(***************************************************************************)
ShouldAuthenticate(r) ==
    r.ClientId # "" /\ r.ClientSecret # "" /\ r.Username # "" /\ r.Password # ""

ShouldReauthenticateLate(r, t) ==
    IF IsZero(r.ExpiresAt) THEN FALSE ELSE After(t, r.ExpiresAt)

\* r.ShouldReauthenticate() with time.Now() = t
ShouldReauthenticate(r, t) ==
    IF IsZero(r.ExpiresAt) THEN FALSE ELSE ~After(r.ExpiresAt, t)

templateRedditCommentsURL(template, subreddit, postId, postPath) ==
    LET t1 == ReplaceAll(template, "{SUBREDDIT}", subreddit)
        t2 == ReplaceAll(t1, "{POST-ID}", postId)
    IN  ReplaceAll(t2, "{POST-PATH}", TrimLeft(postPath, "/"))

(***************************************************************************)
(* Errors.                                                                 *)
(***************************************************************************)
NoErr == "nil"
ErrTransport == "transport error"
ErrDecode == "decode error"
ErrNoAccessToken == "reddit access token undefined"
ErrNoExpiresIn == "reddit expires in undefined"
ErrNewRequest == "net/url: invalid control character in URL"
ErrNoPosts == "no posts found"

(***************************************************************************)
(* The external services: net/url's parser, html.UnescapeString,           *)
(* url.Values.Encode and the JSON-over-HTTP helper.                        *)
(***************************************************************************)
\* http.NewRequest fails when the URL does not parse
NewRequestError(url) == IF Contains(url, CtlChar) THEN ErrNewRequest ELSE NoErr

UnescapeToken(tok) ==
    CASE tok = "&amp;" -> "&"
      [] tok = "&lt;" -> "<"
      [] OTHER -> tok

\* html.UnescapeString
UnescapeString(s) == [i \in DOMAIN s |-> UnescapeToken(s[i])]

QueryEscapeToken(tok) ==
    CASE tok = " subreddit:" -> "+subreddit%3A"
      [] tok = "/" -> "%2F"
      [] tok = CtlChar -> "%7F"
      [] OTHER -> tok

\* url.QueryEscape
QueryEscape(s) == [i \in DOMAIN s |-> QueryEscapeToken(s[i])]

\* what decodeJsonFromRequest[redditAccessTokenResponseJson] can return
NoTokenBody == [AccessToken |-> "", ExpiresIn |-> 0]
TokenBodies(tokens, ints) == [AccessToken : tokens, ExpiresIn : ints]
TokenOutcomes(tokens, ints) ==
    {[err |-> e, body |-> NoTokenBody] : e \in {ErrTransport, ErrDecode}}
        \cup {[err |-> NoErr, body |-> b] : b \in TokenBodies(tokens, ints)}

\* what decodeJsonFromRequest[subredditResponseJson] can return
ListingOutcomes(listings) ==
    {[err |-> e, body |-> <<>>] : e \in {ErrTransport, ErrDecode}}
        \cup {[err |-> NoErr, body |-> l] : l \in listings}

\* addBrowserUserAgentHeader
BrowserUserAgent == <<"Mozilla/5.0">>

(***************************************************************************)
(* The callers' frames.                                                    *)
(***************************************************************************)
NoCall ==
    [fn |-> "none", oauth |-> Nil, subreddit |-> <<>>, sort |-> "", topPeriod |-> "",
     search |-> <<>>, commentsUrlTemplate |-> <<>>, requestUrlTemplate |-> <<>>,
     showFlairs |-> FALSE]
NoRequest == [method |-> "", url |-> <<>>, Authorization |-> <<>>, UserAgent |-> <<>>]
NoRet == [posts |-> <<>>, err |-> "pending"]
NoResponse == [err |-> NoErr, body |-> NoTokenBody]
NoListing == [err |-> NoErr, body |-> <<>>]

\* the arguments of a FetchSubredditPosts call
FetchCall(o, subreddit, sort, topPeriod, search, commentsUrlTemplate, requestUrlTemplate, showFlairs) ==
    [fn |-> "FetchSubredditPosts", oauth |-> o, subreddit |-> subreddit, sort |-> sort,
     topPeriod |-> topPeriod, search |-> search, commentsUrlTemplate |-> commentsUrlTemplate,
     requestUrlTemplate |-> requestUrlTemplate, showFlairs |-> showFlairs]

\* the argument of a TryAuthenticate call
AuthCall(o) == [NoCall EXCEPT !.fn = "TryAuthenticate", !.oauth = o]

\* the fields of a RedditOauth that TryAuthenticate derives
Derived(r) == [AccessToken |-> r.AccessToken, ExpiresAt |-> r.ExpiresAt]
NoSnapshot == [AccessToken |-> "", ExpiresAt |-> ZeroTime]
Snapshot(o) == IF o = Nil THEN NoSnapshot ELSE Derived(cred[o])

\* a RedditOauth as the configuration creates it
NewCredential(id) ==
    [ClientId |-> id.ClientId, ClientSecret |-> id.ClientSecret, Username |-> id.Username,
     Password |-> id.Password, UserAgent |-> id.UserAgent,
     AccessToken |-> "", ExpiresAt |-> ZeroTime]

(***************************************************************************)
(* Unsynchronized accesses to a shared RedditOauth.  A read that another   *)
(* caller's write of the same field can overlap may see a torn value: a    *)
(* string header with the pointer of one value and the length of another,  *)
(* a time.Time with words of two values.                                   *)
(***************************************************************************)
TornToken == "<torn>"

\* the other callers about to execute the write at `at` on credential c
Writers(p, c, at) == {q \in Procs \ {p} : call[q].oauth = c /\ pc[q] = at}

\* what a read of cred[c].AccessToken by p can return
ReadAccessToken(p, c) ==
    {cred[c].AccessToken} \cup (IF Writers(p, c, "T98") # {} THEN {TornToken} ELSE {})

\* what cred[c].ShouldReauthenticate() called by p can return
ReadShouldReauthenticate(p, c) ==
    {ShouldReauthenticate(cred[c], now)}
        \cup (IF Writers(p, c, "T99") # {} THEN BOOLEAN ELSE {})

\* what p's write of tok to cred[c].AccessToken can leave there
WriteAccessToken(p, c, tok) ==
    {tok} \cup (IF Writers(p, c, "T98") # {} THEN {TornToken} ELSE {})

(***************************************************************************)
(* TryAuthenticate.                                                        *)
(***************************************************************************)
TokenResponseErrorNoExpiryCheck(o) ==
    IF o.err # NoErr THEN o.err
    ELSE IF o.body.AccessToken = "" THEN ErrNoAccessToken
    ELSE NoErr

\* the error TryAuthenticate returns on the token endpoint's answer o
TokenResponseError(o) ==
    IF o.err # NoErr THEN o.err
    ELSE IF o.body.AccessToken = "" THEN ErrNoAccessToken
    ELSE IF o.body.ExpiresIn = 0 THEN ErrNoExpiresIn
    ELSE NoErr

DurationOfNanoseconds(expiresIn) == Wrap(expiresIn)

\* time.Duration(response.ExpiresIn) * time.Second
DurationOf(expiresIn) == Wrap(expiresIn * Second)

ExpiresAtFromZero(t, expiresIn) == TimeAdd(ZeroTime, DurationOf(expiresIn))

\* time.Now().Add(time.Duration(response.ExpiresIn) * time.Second), time.Now() = t
ExpiresAtOf(t, expiresIn) == TimeAdd(t, DurationOf(expiresIn))

\* TryAuthenticate returns nil: to the caller, or into FetchSubredditPosts
ReturnNil(p) ==
    IF call[p].fn = "TryAuthenticate"
    THEN /\ pc' = [pc EXCEPT ![p] = "done"]
         /\ ret' = [ret EXCEPT ![p] = [posts |-> <<>>, err |-> NoErr]]
    ELSE /\ pc' = [pc EXCEPT ![p] = "F142"]
         /\ ret' = ret

FailTryAuthenticateIgnored(p, err) ==
    /\ log' = [log EXCEPT ![p] = Append(@, "tokenResp")]
    /\ ReturnNil(p)

FailTryAuthenticateRetried(p, err) ==
    /\ log' = [log EXCEPT ![p] = @ \o <<"tokenResp", "tokenReq">>]
    /\ UNCHANGED <<pc, ret>>

\* TryAuthenticate returns err; FetchSubredditPosts returns nil, err
FailTryAuthenticate(p, err) ==
    /\ log' = [log EXCEPT ![p] = Append(@, "tokenResp")]
    /\ pc' = [pc EXCEPT ![p] = "done"]
    /\ ret' = [ret EXCEPT ![p] = [posts |-> <<>>, err |-> err]]

\* TryAuthenticate up to the token request
EnterTryAuthenticate(p, o) ==
    IF ShouldAuthenticate(cred[o])
    THEN /\ log' = [log EXCEPT ![p] = Append(@, "tokenReq")]
         /\ pc' = [pc EXCEPT ![p] = "T84"]
         /\ ret' = ret
    ELSE /\ log' = log
         /\ ReturnNil(p)

\* a caller calls TryAuthenticate(oauth) itself
CallTryAuthenticate(p, o) ==
    /\ pc[p] = "idle"
    /\ call' = [call EXCEPT ![p] = AuthCall(o)]
    /\ before' = [before EXCEPT ![p] = Snapshot(o)]
    /\ IF ShouldAuthenticate(cred[o])
       THEN /\ log' = [log EXCEPT ![p] = <<"tokenReq">>]
            /\ pc' = [pc EXCEPT ![p] = "T84"]
            /\ ret' = ret
       ELSE /\ log' = log
            /\ pc' = [pc EXCEPT ![p] = "done"]
            /\ ret' = [ret EXCEPT ![p] = [posts |-> <<>>, err |-> NoErr]]
    /\ UNCHANGED <<now, cred, useOauth, response, request, listing>>

\* the token endpoint's answer arrives and is validated
ReceiveToken(p, o) ==
    /\ pc[p] = "T84"
    /\ response' = [response EXCEPT ![p] = o]
    /\ IF TokenResponseError(o) # NoErr
       THEN FailTryAuthenticate(p, TokenResponseError(o))
       ELSE /\ log' = [log EXCEPT ![p] = Append(@, "tokenResp")]
            /\ pc' = [pc EXCEPT ![p] = "T98"]
            /\ ret' = ret
    /\ UNCHANGED <<now, cred, call, useOauth, request, listing, before>>

StoreAccessTokenShared(p) ==
    /\ pc[p] = "T98"
    /\ cred' = [cred EXCEPT ![1].AccessToken = response[p].body.AccessToken]
    /\ pc' = [pc EXCEPT ![p] = "T99"]
    /\ UNCHANGED <<now, call, useOauth, response, request, listing, ret, log, before>>

\* oauth.AccessToken = response.AccessToken
StoreAccessToken(p) ==
    /\ pc[p] = "T98"
    /\ \E v \in WriteAccessToken(p, call[p].oauth, response[p].body.AccessToken) :
          cred' = [cred EXCEPT ![call[p].oauth].AccessToken = v]
    /\ pc' = [pc EXCEPT ![p] = "T99"]
    /\ UNCHANGED <<now, call, useOauth, response, request, listing, ret, log, before>>

\* oauth.ExpiresAt = time.Now().Add(...); return nil
StoreExpiresAt(p) ==
    /\ pc[p] = "T99"
    /\ cred' = [cred EXCEPT ![call[p].oauth].ExpiresAt =
                                ExpiresAtOf(now, response[p].body.ExpiresIn)]
    /\ ReturnNil(p)
    /\ UNCHANGED <<now, call, useOauth, response, request, listing, log, before>>

(***************************************************************************)
(* FetchSubredditPosts: the request.                                       *)
(***************************************************************************)
\* query.Encode(): the keys in sorted order (q, sort, t), the values escaped
EncodeQuery(c) ==
    LET q == IF c.search # <<>>
             THEN <<"q=">> \o QueryEscape(c.search \o <<" subreddit:">> \o c.subreddit)
                      \o <<"&sort=", QueryEscapeToken(c.sort)>>
             ELSE <<>>
        t == IF c.sort = "top"
             THEN <<(IF q = <<>> THEN "t=" ELSE "&t="), QueryEscapeToken(c.topPeriod)>>
             ELSE <<>>
    IN  q \o t

\* requestUrl before the request-URL template is applied
ListingUrl(baseRequestUrl, c) ==
    IF c.search # <<>>
    THEN <<baseRequestUrl, "/search.json?">> \o EncodeQuery(c)
    ELSE <<baseRequestUrl, "/r/">> \o c.subreddit \o <<"/", c.sort, ".json?">> \o EncodeQuery(c)

\* requestUrl as handed to http.NewRequest
RequestUrl(baseRequestUrl, c) ==
    IF c.requestUrlTemplate # <<>>
    THEN ReplaceAll(c.requestUrlTemplate, "{REQUEST-URL}", ListingUrl(baseRequestUrl, c))
    ELSE ListingUrl(baseRequestUrl, c)

OauthHost == "https://oauth.reddit.com"
PublicHost == "https://reddit.com"

BaseRequestUrl(use) == IF use THEN OauthHost ELSE PublicHost

UseOauthIfConfigured(o, tok) == o # Nil /\ ShouldAuthenticate(cred[o])

\* useOauth := oauth != nil && oauth.AccessToken != "", oauth.AccessToken read as tok
UseOauth(o, tok) == o # Nil /\ tok # ""

\* the User-Agent of an authenticated request
OauthUserAgent(r) ==
    IF r.UserAgent # "" THEN <<r.UserAgent>> ELSE <<"glance/0.1 by ", r.Username>>

\* the listing request, oauth.AccessToken read as tok
ListingRequest(c, use, tok) ==
    [method |-> "GET",
     url |-> RequestUrl(BaseRequestUrl(use), c),
     Authorization |-> IF use THEN <<"bearer ", tok>> ELSE <<>>,
     UserAgent |-> IF use THEN OauthUserAgent(cred[c.oauth]) ELSE BrowserUserAgent]

(***************************************************************************)
(* FetchSubredditPosts: the posts.                                         *)
(***************************************************************************)
WebDomain == "https://www.reddit.com"

\* commentsUrl
DiscussionUrlOf(post, c) ==
    IF c.commentsUrlTemplate = <<>>
    THEN <<WebDomain>> \o post.Permalink
    ELSE templateRedditCommentsURL(c.commentsUrlTemplate, c.subreddit, post.Id, post.Permalink)

\* forumPost.ThumbnailUrl
ThumbnailUrlOf(post) ==
    IF /\ post.Thumbnail # <<>>
       /\ post.Thumbnail # <<"self">>
       /\ post.Thumbnail # <<"default">>
       /\ post.Thumbnail # <<"nsfw">>
    THEN UnescapeString(post.Thumbnail)
    ELSE <<>>

LinkUrlAlways(post) == post.Url

\* forumPost.TargetUrl before the crosspost override
LinkUrlOf(post) == IF ~post.IsSelf THEN post.Url ELSE <<>>

\* forumPost.TargetUrl of a crosspost
ParentUrlOf(parent, c) ==
    IF c.commentsUrlTemplate = <<>>
    THEN <<WebDomain>> \o parent.Permalink
    ELSE templateRedditCommentsURL(c.commentsUrlTemplate, parent.Subreddit, parent.Id, parent.Permalink)

\* int64(post.Time), post.Time in tenths of a second: truncation toward zero
TruncateTime(tenths) == IF tenths >= 0 THEN tenths \div 10 ELSE -((-tenths) \div 10)

\* the ForumPost of children[i]; src, the index of its source entry, is not a
\* field of ForumPost: it records where the post came from
ForumPostOf(post, i, c) ==
    LET crosspost == Len(post.ParentList) > 0
    IN  [Title |-> UnescapeString(post.Title),
         DiscussionUrl |-> DiscussionUrlOf(post, c),
         TargetUrl |-> IF crosspost THEN ParentUrlOf(post.ParentList[1], c) ELSE LinkUrlOf(post),
         TargetUrlDomain |-> IF crosspost THEN <<"r/">> \o post.ParentList[1].Subreddit
                             ELSE post.Domain,
         ThumbnailUrl |-> ThumbnailUrlOf(post),
         CommentCount |-> post.CommentsCount,
         Score |-> post.Upvotes,
         TimePosted |-> TruncateTime(post.Time),
         Tags |-> IF c.showFlairs /\ post.Flair # <<>> THEN <<post.Flair>> ELSE <<>>,
         IsCrosspost |-> crosspost,
         src |-> i]

SkippedIfStickied(post) == post.Stickied

\* if post.Stickied || post.Pinned { continue }
Skipped(post) == post.Stickied \/ post.Pinned

RECURSIVE PostsFrom(_, _, _, _)
\* the loop over responseJson.Data.Children from index i on
PostsFrom(list, i, posts, c) ==
    IF i > Len(list) THEN posts
    ELSE IF Skipped(list[i]) THEN PostsFrom(list, i + 1, posts, c)
    ELSE PostsFrom(list, i + 1, Append(posts, ForumPostOf(list[i], i, c)), c)

\* what FetchSubredditPosts returns on the listing endpoint's answer o
ListingResult(o, c) ==
    IF o.err # NoErr THEN [posts |-> <<>>, err |-> o.err]
    ELSE IF Len(o.body) = 0 THEN [posts |-> <<>>, err |-> ErrNoPosts]
    ELSE [posts |-> PostsFrom(o.body, 1, <<>>, c), err |-> NoErr]

(***************************************************************************)
(* FetchSubredditPosts: the steps.                                         *)
(***************************************************************************)
\* a caller calls FetchSubredditPosts with the arguments c; useOauth is set
CallFetch(p, c) ==
    /\ pc[p] = "idle"
    /\ call' = [call EXCEPT ![p] = c]
    /\ before' = [before EXCEPT ![p] = Snapshot(c.oauth)]
    /\ log' = [log EXCEPT ![p] = <<>>]
    /\ \E tok \in (IF c.oauth = Nil THEN {""} ELSE ReadAccessToken(p, c.oauth)) :
          /\ useOauth' = [useOauth EXCEPT ![p] = UseOauth(c.oauth, tok)]
          /\ pc' = [pc EXCEPT ![p] = IF UseOauth(c.oauth, tok) THEN "F113" ELSE "F142"]
    /\ UNCHANGED <<now, cred, response, request, listing, ret>>

\* if oauth.ShouldReauthenticate() { err := TryAuthenticate(oauth) ...
CheckExpiry(p) ==
    /\ pc[p] = "F113"
    /\ \E due \in ReadShouldReauthenticate(p, call[p].oauth) :
          IF due
          THEN EnterTryAuthenticate(p, call[p].oauth)
          ELSE /\ pc' = [pc EXCEPT ![p] = "F142"]
               /\ UNCHANGED <<ret, log>>
    /\ UNCHANGED <<now, cred, call, useOauth, response, request, listing, before>>

\* the listing request is built and, unless http.NewRequest fails, issued
IssueListingRequest(p) ==
    /\ pc[p] = "F142"
    /\ LET c == call[p]
           url == RequestUrl(BaseRequestUrl(useOauth[p]), c)
       IN  IF NewRequestError(url) # NoErr
           THEN /\ ret' = [ret EXCEPT ![p] = [posts |-> <<>>, err |-> NewRequestError(url)]]
                /\ pc' = [pc EXCEPT ![p] = "done"]
                /\ UNCHANGED <<request, log>>
           ELSE /\ \E tok \in (IF useOauth[p] THEN ReadAccessToken(p, c.oauth) ELSE {""}) :
                      request' = [request EXCEPT ![p] = ListingRequest(c, useOauth[p], tok)]
                /\ log' = [log EXCEPT ![p] = Append(@, "listingReq")]
                /\ pc' = [pc EXCEPT ![p] = "F162"]
                /\ ret' = ret
    /\ UNCHANGED <<now, cred, call, useOauth, response, listing, before>>

\* the listing endpoint's answer arrives; the posts are built and returned
ReceiveListing(p, o) ==
    /\ pc[p] = "F162"
    /\ log' = [log EXCEPT ![p] = Append(@, "listingResp")]
    /\ listing' = [listing EXCEPT ![p] = o]
    /\ ret' = [ret EXCEPT ![p] = ListingResult(o, call[p])]
    /\ pc' = [pc EXCEPT ![p] = "done"]
    /\ UNCHANGED <<now, cred, call, useOauth, response, request, before>>

\* the caller takes the result; its frame is gone
Return(p) ==
    /\ pc[p] = "done"
    /\ pc' = [pc EXCEPT ![p] = "idle"]
    /\ call' = [call EXCEPT ![p] = NoCall]
    /\ useOauth' = [useOauth EXCEPT ![p] = FALSE]
    /\ response' = [response EXCEPT ![p] = NoResponse]
    /\ request' = [request EXCEPT ![p] = NoRequest]
    /\ listing' = [listing EXCEPT ![p] = NoListing]
    /\ ret' = [ret EXCEPT ![p] = NoRet]
    /\ log' = [log EXCEPT ![p] = <<>>]
    /\ before' = [before EXCEPT ![p] = NoSnapshot]
    /\ UNCHANGED <<now, cred>>

\* time passes
Tick ==
    /\ now < Epoch + MaxTick
    /\ now' = now + 1
    /\ UNCHANGED <<cred, pc, call, useOauth, response, request, listing, ret, log, before>>

(***************************************************************************)
(* The inputs.                                                             *)
(***************************************************************************)
SeqsUpTo(S, n) == UNION {[1..k -> S] : k \in 0..n}

FullIdentity ==
    [ClientId |-> "id", ClientSecret |-> "secret", Username |-> "user",
     Password |-> "pass", UserAgent |-> ""]
Identities ==
    {FullIdentity, [FullIdentity EXCEPT !.UserAgent = "agent"],
     [FullIdentity EXCEPT !.Password = ""]}

Tokens == {"", "tokA", "tokB"}

PlainEntry ==
    [Id |-> <<"p1">>, Title |-> <<"Q", "&amp;", "A">>, Upvotes |-> 5, Url |-> <<"http://x">>,
     Time |-> 15, CommentsCount |-> 2, Domain |-> <<"x">>,
     Permalink |-> <<"/", "r/sub/comments/p1">>, Stickied |-> FALSE, Pinned |-> FALSE,
     IsSelf |-> FALSE, Thumbnail |-> <<"default">>, Flair |-> <<>>, ParentList |-> <<>>]

\* entries that differ in what the filter reads
FlagEntries == {[PlainEntry EXCEPT !.Stickied = s, !.Pinned = q] : s, q \in BOOLEAN}

Parents ==
    [Id : {<<>>, <<"q1">>}, Subreddit : {<<"other">>},
     Permalink : {<<>>, <<"/">>, <<"/", "r/other/comments/q1">>}]
ParentLists ==
    {<<>>, <<[Id |-> <<"q1">>, Subreddit |-> <<"other">>, Permalink |-> <<"/">>],
             [Id |-> <<"q2">>, Subreddit |-> <<"more">>, Permalink |-> <<"/", "r/more/comments/q2">>]>>}
        \cup {<<x>> : x \in Parents}

\* entries that differ in what the normalization reads
ShapeEntries ==
    {[PlainEntry EXCEPT !.Stickied = f[1], !.Pinned = f[2], !.IsSelf = f[3], !.Url = u,
                        !.Thumbnail = t, !.Flair = fl, !.ParentList = pl] :
        f \in [1..3 -> BOOLEAN], u \in {<<>>, <<"http://x">>},
        t \in {<<>>, <<"self">>, <<"http://t?a=1", "&amp;", "b=2">>},
        fl \in {<<>>, <<"news">>}, pl \in ParentLists}

CommentsUrlTemplates ==
    {<<>>, <<"{POST-ID}">>, <<"{POST-PATH}">>,
     <<"https://old.reddit.com/r/", "{SUBREDDIT}", "/comments/", "{POST-ID}">>}

PlainCall(o) == FetchCall(o, <<"sub">>, "hot", "", <<>>, <<>>, <<>>, FALSE)

\* the calls of the sequential specification
SeqCalls ==
    UNION {{PlainCall(o),
            FetchCall(o, <<"sub">>, "top", "week", <<"rust">>, <<>>,
                      <<"https://proxy/?url=", "{REQUEST-URL}">>, TRUE),
            FetchCall(o, <<"sub", CtlChar>>, "new", "", <<>>, <<>>, <<>>, FALSE)} : o \in {Nil, 1}}

\* the calls of the normalization's specification
ShapeCalls ==
    {FetchCall(Nil, <<"sub">>, "hot", "", <<>>, t, <<>>, fl) :
        t \in CommentsUrlTemplates, fl \in BOOLEAN}

\* the calls of the concurrent specification
RaceCalls == {PlainCall(o) : o \in Creds}

(***************************************************************************)
(* The specifications.                                                     *)
(***************************************************************************)
InitFrames ==
    /\ now = Epoch
    /\ pc = [p \in Procs |-> "idle"]
    /\ call = [p \in Procs |-> NoCall]
    /\ useOauth = [p \in Procs |-> FALSE]
    /\ response = [p \in Procs |-> NoResponse]
    /\ request = [p \in Procs |-> NoRequest]
    /\ listing = [p \in Procs |-> NoListing]
    /\ ret = [p \in Procs |-> NoRet]
    /\ log = [p \in Procs |-> <<>>]
    /\ before = [p \in Procs |-> NoSnapshot]

\* one caller, one credential that has never authenticated
Init ==
    /\ InitFrames
    /\ \E id \in Identities :
          cred = [c \in Creds |-> NewCredential(IF c = 1 THEN id ELSE FullIdentity)]

\* calls made one after the other on credential 1
Next ==
    \/ Tick
    \/ CallTryAuthenticate(1, 1)
    \/ \E c \in SeqCalls : CallFetch(1, c)
    \/ CheckExpiry(1)
    \/ \E o \in TokenOutcomes(Tokens, IntValues) : ReceiveToken(1, o)
    \/ StoreAccessToken(1)
    \/ StoreExpiresAt(1)
    \/ IssueListingRequest(1)
    \/ \E o \in ListingOutcomes(SeqsUpTo(FlagEntries, MaxLen)) : ReceiveListing(1, o)
    \/ Return(1)

Spec == Init /\ [][Next]_vars

\* unauthenticated fetches over every shape of entry
NextShape ==
    \/ \E c \in ShapeCalls : CallFetch(1, c)
    \/ IssueListingRequest(1)
    \/ \E o \in ListingOutcomes({<<e>> : e \in ShapeEntries}) : ReceiveListing(1, o)
    \/ Return(1)

SpecShape == Init /\ [][NextShape]_vars

\* the token the endpoint issues in answer to caller p's request
FreshToken(p) == IF p = 1 THEN "tokA" ELSE "tokB"

\* Two callers: caller 1 on credential 1, caller 2 on credential 1 or 2.  Both
\* credentials have authenticated at the first reading of the clock and were
\* given a token for one second.
InitRace ==
    /\ InitFrames
    /\ cred = [c \in Creds |->
                 [NewCredential(FullIdentity) EXCEPT
                     !.AccessToken = "tok0", !.ExpiresAt = ExpiresAtOf(Epoch, 1)]]

NextRace ==
    \/ Tick
    \/ \E p \in Procs :
          \/ \E c \in RaceCalls : c.oauth <= p /\ CallFetch(p, c)
          \/ CheckExpiry(p)
          \/ \E o \in TokenOutcomes({FreshToken(p)}, {1}) : ReceiveToken(p, o)
          \/ StoreAccessToken(p)
          \/ StoreExpiresAt(p)
          \/ IssueListingRequest(p)
          \/ \E o \in ListingOutcomes({<<PlainEntry>>}) : ReceiveListing(p, o)
          \/ Return(p)

SpecRace == InitRace /\ [][NextRace]_vars

(***************************************************************************)
(* The properties.                                                         *)
(***************************************************************************)
Fetching(p) == call[p].fn = "FetchSubredditPosts"
Authenticating(p) == call[p].fn = "TryAuthenticate"
Issued(p, what) == Contains(log[p], what)
EndsWith(p, what) == log[p] # <<>> /\ log[p][Len(log[p])] = what

\* the token endpoint's answer that p holds is one TryAuthenticate accepts
Accepted(p) ==
    /\ response[p].err = NoErr
    /\ response[p].body.AccessToken # ""
    /\ response[p].body.ExpiresIn # 0

\* p's call of TryAuthenticate (its own, or the one inside its fetch) has returned an error
TryAuthenticateFailed(p) ==
    pc[p] = "done" /\ ret[p].err # NoErr /\ EndsWith(p, "tokenResp") /\ ~Accepted(p)

\* p's call of TryAuthenticate has returned nil
TryAuthenticateSucceeded(p) ==
    \/ Authenticating(p) /\ pc[p] = "done" /\ ret[p].err = NoErr
    \/ Fetching(p) /\ pc[p] \in {"F142", "F162", "done"} /\ ~TryAuthenticateFailed(p)

\* C1: whenever TryAuthenticate returns an error, AccessToken and ExpiresAt are
\* what they were before the call; the two fields differ from what they were
\* when the call started only after a response with a non-empty access_token and
\* a non-zero expires_in, in a call of TryAuthenticate that stores them and
\* returns nil.
C1_ErrorLeavesCredentialUnchanged ==
    \A p \in Procs : pc[p] # "idle" =>
        /\ TryAuthenticateFailed(p) => Snapshot(call[p].oauth) = before[p]
        /\ Snapshot(call[p].oauth) # before[p] =>
              /\ Issued(p, "tokenResp")
              /\ Accepted(p)
              /\ pc[p] = "T99" \/ TryAuthenticateSucceeded(p)

\* a fetch on a credential that holds a token has failed in its token exchange
C1_Witness ==
    /\ pc[1] = "done" /\ Fetching(1) /\ TryAuthenticateFailed(1)
    /\ ret[1].err = ErrNoExpiresIn
    /\ before[1].AccessToken # ""

\* C2: in a fetch whose credential holds a token and whose expiry is at or
\* before the clock when it is checked, TryAuthenticate is entered (the token
\* request goes out) before any listing request; when the token exchange
\* fails the fetch returns that error and no posts, and no listing request is
\* ever issued after a failed exchange.
C2_ReauthenticateFirstOrFail ==
    [][\A p \in Procs :
        LET r == cred[call[p].oauth]
            o == response'[p]
        IN  /\ (pc[p] = "F113" /\ pc'[p] # "F113" /\ r.ExpiresAt # ZeroTime /\ r.ExpiresAt <= now)
                  => /\ ~Contains(log'[p], "listingReq")
                     /\ \/ pc'[p] = "T84" /\ log'[p] = <<"tokenReq">>
                        \/ pc'[p] = "F142" /\ ~ShouldAuthenticate(r)
            /\ (Fetching(p) /\ pc[p] = "T84" /\ pc'[p] # "T84" /\
                    (o.err # NoErr \/ o.body.AccessToken = "" \/ o.body.ExpiresIn = 0))
                  => /\ pc'[p] = "done"
                     /\ ret'[p].posts = <<>>
                     /\ ret'[p].err = (IF o.err # NoErr THEN o.err
                                       ELSE IF o.body.AccessToken = "" THEN ErrNoAccessToken
                                       ELSE ErrNoExpiresIn)
                     /\ ~Contains(log'[p], "listingReq")
            /\ (~Issued(p, "listingReq") /\ Contains(log'[p], "listingReq") /\ Issued(p, "tokenReq"))
                  => Issued(p, "tokenResp") /\ Accepted(p)
    ]_vars

\* a fetch found its token expired and failed in the token exchange
C2_Witness ==
    /\ pc[1] = "done" /\ Fetching(1)
    /\ log[1] = <<"tokenReq", "tokenResp">>
    /\ ret[1].err = ErrTransport

\* C3: between calls (no caller between the two stores of TryAuthenticate), a
\* credential created with an empty AccessToken and a zero ExpiresAt that holds
\* a non-empty AccessToken holds a non-zero ExpiresAt.
C3_TokenImpliesExpiry ==
    \A c \in Creds :
        (~\E p \in Procs : pc[p] = "T99" /\ call[p].oauth = c) =>
            (cred[c].AccessToken # "" => cred[c].ExpiresAt # ZeroTime)

\* a token stored with an expiry earlier than any reading of the clock
C3_Witness ==
    /\ pc[1] = "idle"
    /\ cred[1].AccessToken # ""
    /\ cred[1].ExpiresAt < Epoch

\* the other callers that are in a call on p's credential
Sharers(p) == {q \in Procs \ {p} : call[q].oauth = call[p].oauth}

\* C4: the check of the expiry and the stores of AccessToken and ExpiresAt are
\* three separate steps: the check stores nothing, each store writes its one
\* field whatever another caller has stored since the check, and so two fetches
\* on one expired credential can both pass the check before either stores
\* (C4_Witness).  A credential is written only by a caller whose call was given
\* it, and a caller whose credential no other call was given reads only that
\* credential.
C4_CheckThenStoreNotAtomic ==
    [][/\ \A c \in Creds : cred'[c] # cred[c] =>
              \E p \in Procs : call[p].oauth = c /\ pc[p] \in {"T98", "T99"} /\ pc'[p] # pc[p]
       /\ \A p \in Procs :
            LET o == call[p].oauth
                o2 == call'[p].oauth
            IN  /\ (pc[p] = "F113" /\ pc'[p] # "F113") => cred' = cred
                /\ (pc[p] = "T98" /\ pc'[p] # "T98") =>
                      /\ cred'[o].AccessToken \in {response[p].body.AccessToken, TornToken}
                      /\ cred'[o].ExpiresAt = cred[o].ExpiresAt
                /\ (pc[p] = "T99" /\ pc'[p] # "T99") =>
                      /\ cred'[o].AccessToken = cred[o].AccessToken
                      /\ cred'[o].ExpiresAt = now + response[p].body.ExpiresIn * Second
                /\ (pc[p] = "idle" /\ pc'[p] # "idle" /\ Sharers(p)' = {}) =>
                      useOauth'[p] = (cred[o2].AccessToken # "")
                /\ (pc[p] = "F113" /\ pc'[p] # "F113" /\ Sharers(p) = {}) =>
                      (pc'[p] = "T84" <=> cred[o].ExpiresAt <= now)
                /\ (pc[p] = "F142" /\ pc'[p] = "F162" /\ Sharers(p) = {}) =>
                      request'[p].Authorization = <<"bearer ", cred[o].AccessToken>>
    ]_vars

\* two fetches on credential 1 have both found it expired and both hold a new
\* token, and neither has stored anything yet
C4_Witness ==
    /\ call[1].oauth = 1 /\ call[2].oauth = 1
    /\ pc[1] = "T98" /\ pc[2] = "T98"
    /\ Snapshot(1) = before[1] /\ Snapshot(1) = before[2]

IsPrefix(s, t) == Len(s) <= Len(t) /\ \A i \in DOMAIN s : s[i] = t[i]

\* C5: a call issues at most one token request and at most one listing request,
\* the token response is in before the listing request goes out, and a failure
\* (a refused token response, a URL http.NewRequest rejects, a listing response)
\* ends the call with nothing issued after it.
C5_OneRequestEachNoRetry ==
    \A p \in Procs :
        /\ \/ IsPrefix(log[p], <<"tokenReq", "tokenResp", "listingReq", "listingResp">>)
           \/ IsPrefix(log[p], <<"listingReq", "listingResp">>)
        /\ (Issued(p, "tokenResp") /\ ~Accepted(p)) =>
              pc[p] = "done" /\ log[p] = <<"tokenReq", "tokenResp">>
        /\ ret[p].err = ErrNewRequest => pc[p] = "done" /\ ~Issued(p, "listingReq")
        /\ Issued(p, "listingResp") => pc[p] = "done"
        /\ ret[p].err \notin {"pending", NoErr} => pc[p] = "done"

\* a fetch that renewed its token and then failed on the listing
C5_Witness ==
    /\ pc[1] = "done" /\ Fetching(1)
    /\ log[1] = <<"tokenReq", "tokenResp", "listingReq", "listingResp">>
    /\ ret[1].err = ErrTransport

\* C6: ShouldReauthenticate() is false when the expiry is the zero time, true
\* when the expiry is at or before the clock, false when it is after the clock;
\* the step that calls it leaves every credential as it was and goes on to the
\* token exchange exactly when the expiry is at or before the clock.
C6_ShouldReauthenticate ==
    /\ [](\A c \in Creds :
            LET due == ShouldReauthenticate(cred[c], now)
            IN  /\ cred[c].ExpiresAt = ZeroTime => ~due
                /\ (cred[c].ExpiresAt # ZeroTime /\ cred[c].ExpiresAt <= now) => due
                /\ cred[c].ExpiresAt > now => ~due)
    /\ [][\A p \in Procs : (pc[p] = "F113" /\ pc'[p] # "F113") =>
              /\ cred' = cred
              /\ pc'[p] = "T84" <=>
                    (cred[call[p].oauth].ExpiresAt # ZeroTime /\ cred[call[p].oauth].ExpiresAt <= now)
       ]_vars

\* a fetch went on to the token exchange at the very tick of the expiry
C6_Witness ==
    /\ Fetching(1) /\ pc[1] = "T84"
    /\ cred[1].ExpiresAt = now

\* C7: the listing request is built on the authenticated host and carries an
\* Authorization bearer header exactly when a credential was given and held a
\* non-empty access token when the call started; otherwise (no credential, or
\* an empty token, even on a fully configured credential) it is built on the
\* public host, carries no Authorization header, no token request is issued
\* and the credential stays as it was.
C7_OauthOnlyWithToken ==
    \A p \in Procs : Fetching(p) =>
        LET c == call[p]
            hadToken == c.oauth # Nil /\ before[p].AccessToken # ""
        IN  /\ Issued(p, "listingReq") =>
                  /\ Contains(request[p].url, OauthHost) <=> hadToken
                  /\ Contains(request[p].url, PublicHost) <=> ~hadToken
                  /\ request[p].url = RequestUrl(IF hadToken THEN OauthHost ELSE PublicHost, c)
                  /\ request[p].Authorization # <<>> <=> hadToken
                  /\ hadToken => request[p].Authorization = <<"bearer ", cred[c.oauth].AccessToken>>
                  /\ request[p].UserAgent = BrowserUserAgent <=> ~hadToken
            /\ ~hadToken =>
                  /\ ~Issued(p, "tokenReq")
                  /\ Snapshot(c.oauth) = before[p]

\* a fetch on a fully configured credential without a token went to the public host
C7_Witness ==
    /\ Fetching(1) /\ pc[1] = "F162"
    /\ call[1].oauth = 1 /\ ShouldAuthenticate(cred[1])
    /\ cred[1].AccessToken = ""
    /\ Contains(request[1].url, PublicHost)

\* the entry of the listing a returned post was built from
SourceOf(p, post) == listing[p].body[post.src]
Returned(p) == Fetching(p) /\ pc[p] = "done" /\ ret[p].err = NoErr

\* every token of the template is a placeholder that the parent fills with nothing
RendersEmpty(template, parent) ==
    \A i \in DOMAIN template :
        \/ template[i] = "{SUBREDDIT}" /\ parent.Subreddit = <<>>
        \/ template[i] = "{POST-ID}" /\ parent.Id = <<>>
        \/ template[i] = "{POST-PATH}" /\ \A j \in DOMAIN parent.Permalink : parent.Permalink[j] = "/"

Kept(list) == {i \in DOMAIN list : ~list[i].Stickied /\ ~list[i].Pinned}

\* what C9 says of the call p has finished, with or without the error exit of
\* http.NewRequest among the causes it allows
ErrorsAndKeptPosts(p, allowNewRequest) ==
    LET r == ret[p]
        l == listing[p]
    IN  /\ r.err # NoErr =>
              /\ r.posts = <<>>
              /\ \/ EndsWith(p, "tokenResp") /\ ~Accepted(p)
                 \/ allowNewRequest /\ r.err = ErrNewRequest /\ ~Issued(p, "listingReq")
                        /\ Contains(call[p].subreddit \o call[p].requestUrlTemplate, CtlChar)
                 \/ EndsWith(p, "listingResp") /\ l.err # NoErr /\ r.err = l.err
                 \/ EndsWith(p, "listingResp") /\ l.err = NoErr /\ Len(l.body) = 0
                        /\ r.err = ErrNoPosts
        /\ (EndsWith(p, "listingResp") /\ l.err = NoErr /\ Len(l.body) = 0) =>
              r.err = ErrNoPosts /\ r.posts = <<>>
        /\ (EndsWith(p, "listingResp") /\ l.err = NoErr /\ Len(l.body) >= 1) =>
              /\ r.err = NoErr
              /\ {r.posts[k].src : k \in DOMAIN r.posts} = Kept(l.body)
              /\ \A j, k \in DOMAIN r.posts : j < k => r.posts[j].src < r.posts[k].src

\* C9 as claimed: a fetch returns an error only when the token exchange, the
\* transport or the decoding failed or the decoded listing had no entry; with
\* no entry it returns "no posts found" and no posts; with one entry or more it
\* returns no error and one post for each entry that is neither stickied nor
\* pinned, in the order of the listing.
C9_AsClaimed ==
    \A p \in Procs : (Fetching(p) /\ pc[p] = "done") => ErrorsAndKeptPosts(p, FALSE)

\* C9, amended: a fetch returns an error only when the token exchange, the
\* transport or the decoding failed, the decoded listing had no entry, or
\* http.NewRequest rejected the request URL (no listing request is issued
\* then); the rest as claimed.
C9_ErrorsAndKeptPosts ==
    \A p \in Procs : (Fetching(p) /\ pc[p] = "done") => ErrorsAndKeptPosts(p, TRUE)

\* a listing of a pinned entry and a plain one returned the plain one alone
C9_Witness ==
    /\ Returned(1)
    /\ Len(listing[1].body) = 2
    /\ listing[1].body[1].Pinned /\ ~listing[1].body[1].Stickied
    /\ Len(ret[1].posts) = 1
    /\ ret[1].posts[1].src = 2

====
